---- MODULE Spec2Model ----
(***************************************************************************)
(* Model of d3p's differentially-private SVI (src/d3p/svi.py): the norm    *)
(* and clipping functions, and the DPSVI init / update / evaluate          *)
(* operations with their threading of the random number generator state.   *)
(*                                                                         *)
(* Arithmetic is exact: a number is a rational <<n, d>> in lowest terms    *)
(* with d > 0.  The rounding of the floating point types the code runs on  *)
(* is not modelled.  A 2-norm is the exact square root, so the model       *)
(* draws only gradients whose norm is rational wherever the code divides   *)
(* by the norm.                                                            *)
(***************************************************************************)
EXTENDS Integers, Sequences, FiniteSets, TLC

(***************************************************************************)
(* Bounds of the model.                                                    *)
(***************************************************************************)
MaxVal == 4      \* gradient elements are integers in -MaxVal..MaxVal
MaxElems == 3    \* elements of one gradient handed to the norm functions
MaxC == 5        \* largest clipping threshold tried

(***************************************************************************)
(* Exact rational arithmetic.                                              *)
(***************************************************************************)
Abs(i) == IF i < 0 THEN -i ELSE i

RECURSIVE GCD(_, _)
GCD(a, b) == IF b = 0 THEN a ELSE GCD(b, a % b)

Rat(n, d) ==
    LET g == GCD(Abs(n), Abs(d))
        s == IF d < 0 THEN -1 ELSE 1
    IN  <<(s * n) \div g, (s * d) \div g>>

R(i) == <<i, 1>>
RAdd(a, b) == Rat(a[1] * b[2] + b[1] * a[2], a[2] * b[2])
RMul(a, b) == Rat(a[1] * b[1], a[2] * b[2])
RDiv(a, b) == Rat(a[1] * b[2], a[2] * b[1])
RLe(a, b) == a[1] * b[2] <= b[1] * a[2]
RLt(a, b) == a[1] * b[2] < b[1] * a[2]
RMax(a, b) == IF RLe(a, b) THEN b ELSE a

\* the floating point values that are not rationals: infinity, larger than
\* every rational, and not-a-number
Inf == <<1, 0>>
NaN == <<0, 0>>

isfinite(x) == x[2] # 0

IsSquare(n) == n >= 0 /\ \E k \in 0..n : k * k = n
ISqrt(n) == CHOOSE k \in 0..n : k * k = n
IsRSquare(a) == IsSquare(a[1]) /\ IsSquare(a[2])
RSqrt(a) == <<ISqrt(a[1]), ISqrt(a[2])>>

(***************************************************************************)
(* A gradient is a list of parts; a part is the ravelled tensor of one     *)
(* parameter site, a sequence of numbers.                                  *)
(***************************************************************************)
RECURSIVE SumSeq(_)
SumSeq(s) == IF s = <<>> THEN R(0) ELSE RAdd(Head(s), SumSeq(Tail(s)))

RECURSIVE Concat(_)
Concat(parts) == IF parts = <<>> THEN <<>> ELSE Head(parts) \o Concat(Tail(parts))

\* the square of the 2-norm of the concatenation of all parts
NormSq(parts) ==
    LET v == Concat(parts) IN SumSeq([i \in 1..Len(v) |-> RMul(v[i], v[i])])

ScaleParts(f, parts) ==
    [p \in 1..Len(parts) |-> [i \in 1..Len(parts[p]) |-> RMul(f, parts[p][i])]]

\* full_norm with ord = 2: 0 for the empty list, else the norm of the
\* concatenated parts
full_norm(list_of_parts) ==
    IF Len(list_of_parts) = 0 THEN R(0)
    ELSE RSqrt(NormSq(list_of_parts))

\* normalize_gradient: every element times 1 / full_norm.  The norm of the
\* empty list is the Python float 0., and dividing by it raises; the norm of
\* a list of zeros is a zero of the array type, whose inverse is inf, and
\* inf * 0 is nan.
normalize_gradient(list_of_gradient_parts) ==
    IF Len(list_of_gradient_parts) = 0
    THEN [raised |-> "ZeroDivisionError", value |-> <<>>]
    ELSE IF full_norm(list_of_gradient_parts) = R(0)
    THEN [raised |-> "none",
          value |-> [p \in 1..Len(list_of_gradient_parts) |->
                        [i \in 1..Len(list_of_gradient_parts[p]) |-> NaN]]]
    ELSE LET norm_inv == RDiv(R(1), full_norm(list_of_gradient_parts))
         IN  [raised |-> "none", value |-> ScaleParts(norm_inv, list_of_gradient_parts)]

\* a clip_gradient that rescales but never shrinks
ClipNeverShrinks(list_of_gradient_parts, c, rescale_factor) ==
    IF RLe(c, R(0)) THEN [raised |-> "ValueError", value |-> <<>>]
    ELSE [raised |-> "none", value |-> ScaleParts(rescale_factor, list_of_gradient_parts)]

\* a clip_gradient that compares the norm with 1 instead of with c
ClipIgnoresThreshold(list_of_gradient_parts, c, rescale_factor) ==
    IF RLe(c, R(0)) THEN [raised |-> "ValueError", value |-> <<>>]
    ELSE LET norm == RMul(full_norm(list_of_gradient_parts), rescale_factor)
             normalization_constant == RDiv(R(1), RMax(R(1), norm))
             f == RMul(rescale_factor, normalization_constant)
         IN  [raised |-> "none", value |-> ScaleParts(f, list_of_gradient_parts)]

\* a clip_gradient that rejects only c < 0 (at c = 0 the factor is 1/inf = 0)
ClipAcceptsZero(list_of_gradient_parts, c, rescale_factor) ==
    IF RLt(c, R(0)) THEN [raised |-> "ValueError", value |-> <<>>]
    ELSE IF c = R(0)
         THEN [raised |-> "none", value |-> ScaleParts(R(0), list_of_gradient_parts)]
    ELSE LET norm == RMul(full_norm(list_of_gradient_parts), rescale_factor)
             normalization_constant == RDiv(R(1), RMax(R(1), RDiv(norm, c)))
             f == RMul(rescale_factor, normalization_constant)
         IN  [raised |-> "none", value |-> ScaleParts(f, list_of_gradient_parts)]

\* clip_gradient: raises for c <= 0, else every element times
\* rescale_factor / max(1, full_norm * rescale_factor / c)
clip_gradient(list_of_gradient_parts, c, rescale_factor) ==
    IF RLe(c, R(0)) THEN [raised |-> "ValueError", value |-> <<>>]
    ELSE LET norm == RMul(full_norm(list_of_gradient_parts), rescale_factor)
             normalization_constant == RDiv(R(1), RMax(R(1), RDiv(norm, c)))
             f == RMul(rescale_factor, normalization_constant)
         IN  [raised |-> "none", value |-> ScaleParts(f, list_of_gradient_parts)]

(***************************************************************************)
(* Inputs of the norm and clipping functions.                              *)
(***************************************************************************)
RECURSIVE Compositions(_)
\* the ways to cut n elements into consecutive non-empty parts
Compositions(n) ==
    IF n = 0 THEN {<<>>}
    ELSE UNION {{<<k>> \o rest : rest \in Compositions(n - k)} : k \in 1..n}

RECURSIVE Chunk(_, _)
Chunk(flat, shape) ==
    IF shape = <<>> THEN <<>>
    ELSE <<SubSeq(flat, 1, Head(shape))>>
             \o Chunk(SubSeq(flat, Head(shape) + 1, Len(flat)), Tail(shape))

FlatGradients ==
    {v \in UNION {[1..n -> {R(i) : i \in -MaxVal..MaxVal}] : n \in 0..MaxElems} :
        IsRSquare(NormSq(<<v>>))}

Gradients ==
    UNION {{Chunk(v, shape) : shape \in Compositions(Len(v))} : v \in FlatGradients}

Thresholds == {R(i) : i \in -1..MaxC}

RescaleFactors == {R(-1), R(0), Rat(1, 2), R(1), R(2)}

(***************************************************************************)
(* The random number generator suite (d3p.random, and the jax wrapper that *)
(* d3p/random/debug.py re-exports).  A state is the path of the            *)
(* derivations that led to it from the caller's key <<>>: splitting a      *)
(* state k into n gives the n states k \o <<(n, 0)>> .. k \o <<(n, n-1)>>, *)
(* so the substates of one split are pairwise distinct, and distinct from  *)
(* those of any other split.                                               *)
(***************************************************************************)
split(rng_key, num) == [i \in 1..num |-> Append(rng_key, <<num, i - 1>>)]

\* the jax key that stands for a state of the suite
convert_to_jax_rng_key(rng_key) == Append(rng_key, <<0, 0>>)

RECURSIVE KeyCode(_)
KeyCode(rng_key) ==
    IF rng_key = <<>> THEN 1
    ELSE LET l == rng_key[Len(rng_key)]
         IN  (3 * KeyCode(SubSeq(rng_key, 1, Len(rng_key) - 1)) + l[1] + 2 * l[2]) % 7

\* a sample of the given length: a fixed function of the state, as the
\* suite is deterministic; the values are -1, 0 and 1
normal(rng_key, shape) == [j \in 1..shape |-> R(((KeyCode(rng_key) + j) % 3) - 1)]

(***************************************************************************)
(* DPSVIState and its functional updates.                                  *)
(***************************************************************************)
DPSVIState(optim_state, rng_key, observation_scale) ==
    [optim_state |-> optim_state, rng_key |-> rng_key,
     observation_scale |-> observation_scale]

\* an _update_state_rng that builds the new state with the default scale
UpdateStateRngDropsScale(dp_svi_state, rng_key) ==
    DPSVIState(dp_svi_state.optim_state, rng_key, R(1))

_update_state_rng(dp_svi_state, rng_key) ==
    DPSVIState(dp_svi_state.optim_state, rng_key, dp_svi_state.observation_scale)

_update_state_optim_state(dp_svi_state, optim_state) ==
    DPSVIState(optim_state, dp_svi_state.rng_key, dp_svi_state.observation_scale)

NoState == DPSVIState([i |-> 0], <<>>, R(0))

\* a _split_rng_key that hands out the substates but keeps the old state key
SplitKeepsStateKey(dp_svi_state, count) ==
    LET split_keys == split(dp_svi_state.rng_key, count + 1)
    IN  [state |-> dp_svi_state, keys |-> Tail(split_keys)]

\* a _split_rng_key that keeps the last substate and hands out the first ones
SplitRetainsLast(dp_svi_state, count) ==
    LET split_keys == split(dp_svi_state.rng_key, count + 1)
    IN  [state |-> _update_state_rng(dp_svi_state, split_keys[count + 1]),
         keys |-> SubSeq(split_keys, 1, count)]

_split_rng_key(dp_svi_state, count) ==
    LET split_keys == split(dp_svi_state.rng_key, count + 1)
    IN  [state |-> _update_state_rng(dp_svi_state, split_keys[1]),
         keys |-> Tail(split_keys)]

(***************************************************************************)
(* get_observations_scale: site_scales are the scales of the observed      *)
(* sites of the traced model, <<>> standing for a site without scale.      *)
(***************************************************************************)
\* a probe that leaves the sites without scale out
ObservationsScaleSkipsUnscaled(site_scales) ==
    LET scales == {site_scales[k] : k \in {i \in 1..Len(site_scales) : site_scales[i] # <<>>}}
    IN  IF Cardinality(scales) > 1 THEN [raised |-> "ValueError", value |-> R(0)]
        ELSE IF Cardinality(scales) = 0 THEN [raised |-> "none", value |-> R(1)]
        ELSE [raised |-> "none", value |-> CHOOSE x \in scales : TRUE]

get_observations_scale(site_scales) ==
    LET scales == {(IF site_scales[k] # <<>> THEN site_scales[k] ELSE R(1)) :
                       k \in 1..Len(site_scales)}
    IN  IF Cardinality(scales) > 1 THEN [raised |-> "ValueError", value |-> R(0)]
        ELSE IF Cardinality(scales) = 0 THEN [raised |-> "none", value |-> R(1)]
        ELSE [raised |-> "none", value |-> CHOOSE x \in scales : TRUE]

(***************************************************************************)
(* The optimizer is an external collaborator and its state is opaque to    *)
(* DPSVI: the model keeps the number of updates it has applied.            *)
(***************************************************************************)
optim_init == [i |-> 0]

optim_update(batch_gradient, optim_state) == [i |-> optim_state.i + 1]

(***************************************************************************)
(* perturbation_function: one substate per value, and to each value the    *)
(* sample of its substate times perturbation_scale.                        *)
(***************************************************************************)
\* a perturbation that adds the raw sample, whatever the scale
PerturbUnscaled(rng, values, perturbation_scale) ==
    LET per_site_rngs == split(rng, Len(values))
    IN  [p \in 1..Len(values) |->
            LET noise == normal(per_site_rngs[p], Len(values[p]))
            IN  [j \in 1..Len(values[p]) |-> RAdd(values[p][j], noise[j])]]

perturbation_function(rng, values, perturbation_scale) ==
    LET per_site_rngs == split(rng, Len(values))
    IN  [p \in 1..Len(values) |->
            LET noise == [j \in 1..Len(values[p]) |->
                             RMul(normal(per_site_rngs[p], Len(values[p]))[j],
                                  perturbation_scale)]
            IN  [j \in 1..Len(values[p]) |-> RAdd(values[p][j], noise[j])]]

(***************************************************************************)
(* The stages of DPSVI.update.  self is the DPSVI object: its              *)
(* clipping_threshold, dp_scale and pre_clipping_noise_scale (<<>> for     *)
(* None).  Per-example gradients are kept example by example (the view     *)
(* jax.vmap gives of the leading axis): px_gradients[i] is the list of     *)
(* parts, one per parameter site, of example i.                            *)
(***************************************************************************)
Mean(s) == RDiv(SumSeq(s), R(Len(s)))

\* the optional perturbation of every example before clipping
_pre_clipping(self, step_rng_key, px_grads_list, batch_size) ==
    IF self.pre_clipping_noise_scale # <<>>
    THEN LET clip_perturbation_jax_rng ==
                 split(convert_to_jax_rng_key(step_rng_key), batch_size)
         IN  [i \in 1..Len(px_grads_list) |->
                 perturbation_function(clip_perturbation_jax_rng[i], px_grads_list[i],
                                       self.pre_clipping_noise_scale)]
    ELSE px_grads_list

\* a _clip_gradients that shrinks every example by the largest norm of the
\* batch
ClipByLargestNorm(self, dp_svi_state, step_rng_key, px_gradients, batch_size) ==
    LET obs_scale == dp_svi_state.observation_scale
        px_grads_list == _pre_clipping(self, step_rng_key, px_gradients, batch_size)
        largest == CHOOSE i \in 1..Len(px_grads_list) :
                       \A k \in 1..Len(px_grads_list) :
                           RLe(full_norm(px_grads_list[k]), full_norm(px_grads_list[i]))
        norm == RDiv(full_norm(px_grads_list[largest]), obs_scale)
        f == RDiv(RDiv(R(1), obs_scale),
                  RMax(R(1), RDiv(norm, self.clipping_threshold)))
    IN  IF RLe(self.clipping_threshold, R(0))
        THEN [raised |-> "ValueError", value |-> <<>>]
        ELSE [raised |-> "none",
              value |-> [i \in 1..Len(px_grads_list) |-> ScaleParts(f, px_grads_list[i])]]

_clip_gradients(self, dp_svi_state, step_rng_key, px_gradients, batch_size) ==
    LET obs_scale == dp_svi_state.observation_scale
        px_grads_list == _pre_clipping(self, step_rng_key, px_gradients, batch_size)
        clipped == [i \in 1..Len(px_grads_list) |->
                       clip_gradient(px_grads_list[i], self.clipping_threshold,
                                     RDiv(R(1), obs_scale))]
    IN  IF \E i \in 1..Len(clipped) : clipped[i].raised # "none"
        THEN [raised |-> "ValueError", value |-> <<>>]
        ELSE [raised |-> "none", value |-> [i \in 1..Len(clipped) |-> clipped[i].value]]

\* a combination that sums over the example axis instead of taking the mean
CombineBySum(px_grads_list, px_loss) ==
    [loss_val |-> SumSeq(px_loss),
     grads_list |->
        [p \in 1..Len(px_grads_list[1]) |->
            [j \in 1..Len(px_grads_list[1][p]) |->
                SumSeq([i \in 1..Len(px_grads_list) |-> px_grads_list[i][p][j]])]]]

\* the mean over the example axis, of the loss and of every site
_combine_gradients(px_grads_list, px_loss) ==
    [loss_val |-> Mean(px_loss),
     grads_list |->
        [p \in 1..Len(px_grads_list[1]) |->
            [j \in 1..Len(px_grads_list[1][p]) |->
                Mean([i \in 1..Len(px_grads_list) |-> px_grads_list[i][p][j]])]]]

\* a perturbation stage that does not divide the scale by the batch size
PerturbIgnoresBatchSize(self, dp_svi_state, step_rng_key, gradient_list, batch_size) ==
    LET perturbation_scale == RMul(self.dp_scale, self.clipping_threshold)
        perturbed_grads_list ==
            perturbation_function(step_rng_key, gradient_list, perturbation_scale)
        obs_scale == dp_svi_state.observation_scale
    IN  [perturbed_grads_list |-> perturbed_grads_list,
         perturbed_grads |-> ScaleParts(obs_scale, perturbed_grads_list)]

_perturb_and_reassemble_gradients(self, dp_svi_state, step_rng_key, gradient_list, batch_size) ==
    LET perturbation_scale ==
            RDiv(RMul(self.dp_scale, self.clipping_threshold), R(batch_size))
        perturbed_grads_list ==
            perturbation_function(step_rng_key, gradient_list, perturbation_scale)
        obs_scale == dp_svi_state.observation_scale
    IN  [perturbed_grads_list |-> perturbed_grads_list,
         perturbed_grads |-> ScaleParts(obs_scale, perturbed_grads_list)]

\* an _apply_gradient that runs the optimizer's update twice
ApplyGradientTwice(dp_svi_state, batch_gradient) ==
    _update_state_optim_state(
        dp_svi_state,
        optim_update(batch_gradient,
                     optim_update(batch_gradient, dp_svi_state.optim_state)))

_apply_gradient(dp_svi_state, batch_gradient) ==
    _update_state_optim_state(dp_svi_state,
                              optim_update(batch_gradient, dp_svi_state.optim_state))

\* DPSVI.update as a function of the state it is given and of what the loss
\* and autodiff collaborator returns for the batch
update(self, svi_state, per_example_loss, per_example_grads) ==
    LET sp == _split_rng_key(svi_state, 3)
        gradient_rng_key == sp.keys[1]
        perturbation_rng_key == sp.keys[2]
        pre_clipping_rng_key == sp.keys[3]
        batch_size == Len(per_example_loss)
        cl == _clip_gradients(self, sp.state, pre_clipping_rng_key, per_example_grads,
                              batch_size)
        cb == _combine_gradients(cl.value, per_example_loss)
        pt == _perturb_and_reassemble_gradients(self, sp.state, perturbation_rng_key,
                                                cb.grads_list, batch_size)
    IN  IF cl.raised # "none"
        THEN [raised |-> cl.raised, svi_state |-> NoState, loss |-> R(0), gradient |-> <<>>]
        ELSE [raised |-> "none", svi_state |-> _apply_gradient(sp.state, pt.perturbed_grads),
              loss |-> cb.loss_val, gradient |-> pt.perturbed_grads]

(***************************************************************************)
(* Bounds and inputs of the operations.                                    *)
(***************************************************************************)
MaxOps == 3      \* operations on one DPSVI object, init included
MaxBatch == 2    \* examples in one batch
MaxSites == 3    \* observed sites of the traced model
MaxEpochs == 2   \* largest num_epochs given to get_epsilon and get_delta
MaxIter == 3     \* largest num_iter given to get_epsilon and get_delta
MaxNorm == 3     \* norm bound of the clipped gradients given to _combine_gradients

\* what the loss and autodiff collaborator can return for one example: the
\* loss and the gradient, a list of two one-element sites
Examples ==
    {[loss |-> R(0), grads |-> <<<<R(0)>>, <<R(0)>>>>],
     [loss |-> R(1), grads |-> <<<<R(0)>>, <<R(-1)>>>>],
     [loss |-> R(2), grads |-> <<<<R(3)>>, <<R(4)>>>>],
     [loss |-> R(3), grads |-> <<<<R(-6)>>, <<R(-8)>>>>],
     [loss |-> R(5), grads |-> <<<<R(-16)>>, <<R(12)>>>>]}

Batches == UNION {[1..n -> Examples] : n \in 1..MaxBatch}

\* the arguments a caller gives to the constructor
Configs ==
    [clipping_threshold : {R(0), R(5), Inf},
     dp_scale : {R(0), R(1)},
     pre_clipping_noise_scale : {<<>>, R(0), R(1)}]

SiteScales == {<<>>, R(1), R(2)}

SiteScaleLists == UNION {[1..n -> SiteScales] : n \in 0..MaxSites}

NoUpd ==
    [given |-> NoState, svi_state |-> NoState, keys |-> <<>>, px_loss |-> <<>>, px_grads |-> <<>>,
     batch_size |-> 0, clipped |-> <<>>, loss |-> R(0), gradient |-> <<>>,
     perturbed_grads_list |-> <<>>, batch_gradient |-> <<>>]

MutableStates == {"None", "empty", "non_empty"}

NoResult == [op |-> "none", raised |-> "none"]

\* the key the caller hands to init
InitKey == <<>>

VARIABLES
    fn_pc,     \* "ready", "returned" or "raised"
    fn_args,   \* the arguments of the call: gradient g, threshold c, factor r
    fn_result, \* what the call returned
    svi,       \* the DPSVI object
    pc,        \* where the caller and the running update are
    state,     \* the DPSVIState the caller holds
    upd,       \* the locals of the running update
    result,    \* how the last operation ended
    ops,       \* operations started so far
    consumed,  \* [key, op, use]: operation op split, sampled or handed on key
    derived,   \* [op, role, key]: update op derived key for role
    succeeded, \* the updates that returned
    init_mutable_state  \* the mutable state SVI.init reported to init

fnvars == <<fn_pc, fn_args, fn_result>>

svivars ==
    <<svi, pc, state, upd, result, ops, consumed, derived, succeeded, init_mutable_state>>

vars ==
    <<fn_pc, fn_args, fn_result,
      svi, pc, state, upd, result, ops, consumed, derived, succeeded, init_mutable_state>>

\* the DPSVI object of the specifications that only call functions
SviUnused ==
    /\ svi = [clipping_threshold |-> R(1), dp_scale |-> R(0),
              pre_clipping_noise_scale |-> <<>>]
    /\ pc = "unused"
    /\ state = NoState
    /\ upd = NoUpd
    /\ result = NoResult
    /\ ops = 0
    /\ consumed = {}
    /\ derived = {}
    /\ succeeded = {}
    /\ init_mutable_state = "unset"

(***************************************************************************)
(* Calls of the norm and clipping functions.                               *)
(***************************************************************************)
ClipInit ==
    /\ fn_pc = "ready"
    /\ fn_args \in [g : Gradients, c : Thresholds, r : RescaleFactors]
    /\ fn_result = <<>>
    /\ svi \in {[clipping_threshold |-> R(1), dp_scale |-> R(0),
                 pre_clipping_noise_scale |-> <<>>]}
    /\ pc = "unused"
    /\ state = NoState
    /\ upd = NoUpd
    /\ result = NoResult
    /\ ops = 0
    /\ consumed = {}
    /\ derived = {}
    /\ succeeded = {}
    /\ init_mutable_state = "unset"

CallClipGradient ==
    /\ fn_pc = "ready"
    /\ LET res == clip_gradient(fn_args.g, fn_args.c, fn_args.r)
       IN  /\ fn_pc' = IF res.raised = "none" THEN "returned" ELSE "raised"
           /\ fn_result' = res.value
    /\ UNCHANGED fn_args
    /\ UNCHANGED svivars

ClipNext == CallClipGradient

ClipSpec == ClipInit /\ [][ClipNext]_vars

\* calls of normalize_gradient
NormInit ==
    /\ fn_pc = "ready"
    /\ fn_args \in [g : Gradients]
    /\ fn_result = <<>>
    /\ SviUnused

CallNormalizeGradient ==
    /\ fn_pc = "ready"
    /\ LET res == normalize_gradient(fn_args.g)
       IN  /\ fn_pc' = IF res.raised = "none" THEN "returned" ELSE "raised"
           /\ fn_result' = res.value
    /\ UNCHANGED fn_args
    /\ UNCHANGED svivars

NormNext == CallNormalizeGradient

NormSpec == NormInit /\ [][NormNext]_vars

(***************************************************************************)
(* Calls of _combine_gradients on batches of clipped per-example           *)
(* gradients: gradients of two one-element sites whose full norm is at     *)
(* most MaxNorm.                                                           *)
(***************************************************************************)
ClippedGradients ==
    {<<<<R(x)>>, <<R(y)>>>> :
        <<x, y>> \in {v \in (-MaxNorm..MaxNorm) \X (-MaxNorm..MaxNorm) :
                         v[1] * v[1] + v[2] * v[2] <= MaxNorm * MaxNorm}}

CombineInit ==
    /\ fn_pc = "ready"
    /\ fn_args \in [px_grads_list : UNION {[1..n -> ClippedGradients] : n \in 1..MaxBatch}]
    /\ fn_result = <<>>
    /\ SviUnused

CallCombineGradients ==
    /\ fn_pc = "ready"
    /\ LET n == Len(fn_args.px_grads_list)
           res == _combine_gradients(fn_args.px_grads_list, [i \in 1..n |-> R(i)])
       IN  fn_result' = res.grads_list
    /\ fn_pc' = "returned"
    /\ UNCHANGED fn_args
    /\ UNCHANGED svivars

CombineNext == CallCombineGradients

CombineSpec == CombineInit /\ [][CombineNext]_vars

(***************************************************************************)
(* Calls of _clip_gradients on a batch and on the same batch with the raw  *)
(* gradient of one example, other, replaced.                               *)
(***************************************************************************)
\* the key update hands to _clip_gradients in the first step
FirstPreClippingKey == split(InitKey, 4)[4]

\* every example of the batch has a rational norm after the perturbation
PreClippedRational(self, step_rng_key, px_grads, batch_size) ==
    LET g == _pre_clipping(self, step_rng_key, px_grads, batch_size)
    IN  \A i \in 1..Len(g) : IsRSquare(NormSq(g[i]))

\* raw per-example gradients: those of Examples and, for a pipeline that
\* adds noise before clipping, also the neighbours of those that clipping
\* shrinks, so that there are perturbed gradients of rational norm above
\* the threshold
PxGradients(self) ==
    IF self.pre_clipping_noise_scale \in {<<>>, R(0)}
    THEN {e.grads : e \in Examples}
    ELSE {e.grads : e \in Examples} \cup
         {<<<<RAdd(e.grads[1][1], R(d[1]))>>, <<RAdd(e.grads[2][1], R(d[2]))>>>> :
             e \in {x \in Examples : RLt(self.clipping_threshold, full_norm(x.grads))},
             d \in (-1..1) \X (-1..1)}

PxClipInit ==
    /\ fn_pc = "ready"
    /\ \E self \in {c \in Configs : c.dp_scale = R(0) /\ c.clipping_threshold = R(5)},
          n \in 1..MaxBatch :
          \E batch \in {b \in [1..n -> PxGradients(self)] :
                           PreClippedRational(self, FirstPreClippingKey, b, n)},
             other \in 1..n :
             \E replacement \in
                    {g \in PxGradients(self) \ {batch[other]} :
                        PreClippedRational(self, FirstPreClippingKey,
                                           [batch EXCEPT ![other] = g], n)},
                observation_scale \in {R(1), R(2)} :
                fn_args = [self |-> self, observation_scale |-> observation_scale,
                           batch |-> batch, other |-> other,
                           replacement |-> replacement]
    /\ fn_result = <<>>
    /\ SviUnused

CallClipGradients ==
    /\ fn_pc = "ready"
    /\ LET dp_svi_state == DPSVIState(optim_init, split(InitKey, 4)[1],
                                      fn_args.observation_scale)
           changed == [fn_args.batch EXCEPT ![fn_args.other] = fn_args.replacement]
           n == Len(fn_args.batch)
           res == _clip_gradients(fn_args.self, dp_svi_state, FirstPreClippingKey,
                                  fn_args.batch, n)
           res_changed == _clip_gradients(fn_args.self, dp_svi_state, FirstPreClippingKey,
                                          changed, n)
       IN  /\ fn_pc' = IF res.raised = "none" THEN "returned" ELSE "raised"
           /\ fn_result' = [clipped |-> res.value, clipped_changed |-> res_changed.value]
    /\ UNCHANGED fn_args
    /\ UNCHANGED svivars

PxClipNext == CallClipGradients

PxClipSpec == PxClipInit /\ [][PxClipNext]_vars

(***************************************************************************)
(* get_epsilon and get_delta.  The accountant (get_epsilon_R, get_delta_R) *)
(* is an external collaborator: the model keeps the calls made to it.      *)
(* None is <<>>.                                                           *)
(***************************************************************************)
\* a validation that takes num_iter whenever it is given
ValidatePrefersNumIter(num_epochs, num_iter, q) ==
    LET derived_iter == IF num_epochs # <<>> /\ num_iter = <<>>
                        THEN RDiv(num_epochs, q) ELSE num_iter
    IN  IF derived_iter = <<>>
        THEN [raised |-> "ValueError", value |-> <<>>]
        ELSE [raised |-> "none", value |-> derived_iter]

_validate_epochs_and_iter(num_epochs, num_iter, q) ==
    LET derived_iter == IF num_epochs # <<>> THEN RDiv(num_epochs, q) ELSE num_iter
    IN  IF derived_iter = <<>>
        THEN [raised |-> "ValueError", value |-> <<>>]
        ELSE [raised |-> "none", value |-> derived_iter]

\* the body get_epsilon and get_delta share: accountant_fn is get_epsilon_R
\* or get_delta_R, target the target_delta or target_epsilon
AccountantCall(self, accountant_fn, target, q, num_epochs, num_iter) ==
    LET validated == _validate_epochs_and_iter(num_epochs, num_iter, q)
    IN  IF validated.raised # "none"
        THEN [raised |-> validated.raised, calls |-> <<>>]
        ELSE [raised |-> "none",
              calls |-> <<[fn |-> accountant_fn, target |-> target,
                           sigma |-> self.dp_scale, q |-> q, ncomp |-> validated.value]>>]

get_epsilon(self, target_delta, q, num_epochs, num_iter) ==
    AccountantCall(self, "get_epsilon_R", target_delta, q, num_epochs, num_iter)

get_delta(self, target_epsilon, q, num_epochs, num_iter) ==
    AccountantCall(self, "get_delta_R", target_epsilon, q, num_epochs, num_iter)

\* sampling ratios: batch_size / dataset_size
SamplingRatios == {Rat(1, 4), Rat(1, 2), R(1)}

AccountInit ==
    /\ fn_pc = "ready"
    /\ fn_args \in [target : {Rat(1, 10), R(1)},
                    q : SamplingRatios,
                    num_epochs : {<<>>} \cup {R(i) : i \in 0..MaxEpochs},
                    num_iter : {<<>>} \cup {R(i) : i \in 0..MaxIter}]
    /\ fn_result = <<>>
    /\ SviUnused

CallGetEpsilon ==
    /\ fn_pc = "ready"
    /\ LET res == get_epsilon(svi, fn_args.target, fn_args.q, fn_args.num_epochs,
                              fn_args.num_iter)
       IN  /\ fn_pc' = IF res.raised = "none" THEN "returned" ELSE "raised"
           /\ fn_result' = res
    /\ UNCHANGED fn_args
    /\ UNCHANGED svivars

CallGetDelta ==
    /\ fn_pc = "ready"
    /\ LET res == get_delta(svi, fn_args.target, fn_args.q, fn_args.num_epochs,
                            fn_args.num_iter)
       IN  /\ fn_pc' = IF res.raised = "none" THEN "returned" ELSE "raised"
           /\ fn_result' = res
    /\ UNCHANGED fn_args
    /\ UNCHANGED svivars

AccountNext == CallGetEpsilon \/ CallGetDelta

AccountSpec == AccountInit /\ [][AccountNext]_vars

(***************************************************************************)
(* The DPSVI object and its operations.                                    *)
(***************************************************************************)
\* DPSVI.__init__: stores its arguments and raises for a clipping_threshold
\* that is not finite; it makes no other check
__init__(clipping_threshold, dp_scale, pre_clipping_noise_scale) ==
    [raised |-> IF ~isfinite(clipping_threshold) THEN "ValueError" ELSE "none",
     self |-> [clipping_threshold |-> clipping_threshold, dp_scale |-> dp_scale,
               pre_clipping_noise_scale |-> pre_clipping_noise_scale]]

\* the state after the constructor has run on the caller's arguments: svi
\* keeps the arguments also when the constructor raised and there is no
\* object to call
Init ==
    /\ fn_pc = "unused"
    /\ fn_args = [g |-> <<>>, c |-> R(1), r |-> R(1)]
    /\ fn_result = <<>>
    /\ \E a \in Configs :
          LET res == __init__(a.clipping_threshold, a.dp_scale,
                              a.pre_clipping_noise_scale)
          IN  /\ svi = res.self
              /\ pc = IF res.raised = "none" THEN "constructed" ELSE "construct_failed"
    /\ state = NoState
    /\ upd = NoUpd
    /\ result = NoResult
    /\ ops = 0
    /\ consumed = {}
    /\ derived = {}
    /\ succeeded = {}
    /\ init_mutable_state = "unset"

Consume(key, op, use) == [key |-> key, op |-> op, use |-> use]

Derive(op, role, key) == [op |-> op, role |-> role, key |-> key]

\* the update that is running
CurOp == ops - 1

\* an update that raises hands the caller what it had built so far
RaiseKeepsPartialState(error) ==
    /\ pc' = "idle"
    /\ upd' = NoUpd
    /\ result' = [op |-> "update", raised |-> error]
    /\ state' = upd.svi_state

\* update ends by raising: the caller gets no value back and keeps the
\* state it passed
Raise(error) ==
    /\ pc' = "idle"
    /\ upd' = NoUpd
    /\ result' = [op |-> "update", raised |-> error]
    /\ state' = state

\* an init that does not look at the mutable state
InitIgnoresMutableState(rng_key, mutable_state, site_scales) ==
    LET observation_scale == get_observations_scale(site_scales)
    IN  IF observation_scale.raised # "none"
        THEN [raised |-> observation_scale.raised, state |-> NoState]
        ELSE [raised |-> "none",
              state |-> DPSVIState(optim_init, rng_key, observation_scale.value)]

\* what DPSVI.init raises or returns.  mutable_state is what SVI.init
\* reports, site_scales what the traced model shows to
\* get_observations_scale.
DPSVI_init(rng_key, mutable_state, site_scales) ==
    LET observation_scale == get_observations_scale(site_scales)
    IN  IF mutable_state # "None"
        THEN [raised |-> "RuntimeError", state |-> NoState]
        ELSE IF observation_scale.raised # "none"
        THEN [raised |-> observation_scale.raised, state |-> NoState]
        ELSE [raised |-> "none",
              state |-> DPSVIState(optim_init, rng_key, observation_scale.value)]

(***************************************************************************)
(* Calls of DPSVI.init on what its collaborators can report: the mutable   *)
(* state of SVI.init and the scales of the observed sites of the model.    *)
(***************************************************************************)
ProbeInit ==
    /\ fn_pc = "ready"
    /\ fn_args \in [mutable_state : MutableStates, site_scales : SiteScaleLists]
    /\ fn_result = <<>>
    /\ SviUnused

CallInit ==
    /\ fn_pc = "ready"
    /\ LET res == DPSVI_init(InitKey, fn_args.mutable_state, fn_args.site_scales)
       IN  /\ fn_pc' = IF res.raised = "none" THEN "returned" ELSE "raised"
           /\ fn_result' = res
    /\ UNCHANGED fn_args
    /\ UNCHANGED svivars

ProbeNext == CallInit

ProbeSpec == ProbeInit /\ [][ProbeNext]_vars

\* DPSVI.init: the key goes to SVI.init as a jax key, and on success the
\* caller holds the returned state
init ==
    /\ pc = "constructed"
    /\ \E mutable_state \in MutableStates, site_scales \in SiteScaleLists :
          LET res == DPSVI_init(InitKey, mutable_state, site_scales)
          IN  /\ pc' = IF res.raised = "none" THEN "idle" ELSE "init_failed"
              /\ result' = [op |-> "init", raised |-> res.raised]
              /\ state' = res.state
              /\ init_mutable_state' = mutable_state
    /\ consumed' = consumed \cup {Consume(InitKey, ops, "collaborator")}
    /\ ops' = ops + 1
    /\ UNCHANGED <<svi, upd, derived, succeeded>>
    /\ UNCHANGED fnvars

\* a split that derives a key for the pre-clipping noise only when the
\* pipeline is configured with it
SplitCountByConfig ==
    /\ pc = "idle"
    /\ ops < MaxOps
    /\ LET count == IF svi.pre_clipping_noise_scale = <<>> THEN 2 ELSE 3
           r == _split_rng_key(state, count)
           keys == SubSeq(r.keys \o <<r.keys[1]>>, 1, 3)
       IN  /\ upd' = [NoUpd EXCEPT !.given = state, !.svi_state = r.state, !.keys = keys]
           /\ derived' = derived \cup
                  {Derive(ops, "retained", r.state.rng_key),
                   Derive(ops, "gradient", keys[1]),
                   Derive(ops, "perturbation", keys[2]),
                   Derive(ops, "pre_clipping", keys[3])}
    /\ consumed' = consumed \cup {Consume(state.rng_key, ops, "split")}
    /\ ops' = ops + 1
    /\ pc' = "split"
    /\ UNCHANGED <<svi, state, result, succeeded, init_mutable_state>>
    /\ UNCHANGED fnvars

\* update, line 439: split the state key into the new state key and 3 keys
update_split_rng_key ==
    /\ pc = "idle"
    /\ ops < MaxOps
    /\ LET r == _split_rng_key(state, 3)
       IN  /\ upd' = [NoUpd EXCEPT !.given = state, !.svi_state = r.state, !.keys = r.keys]
           /\ derived' = derived \cup
                  {Derive(ops, "retained", r.state.rng_key),
                   Derive(ops, "gradient", r.keys[1]),
                   Derive(ops, "perturbation", r.keys[2]),
                   Derive(ops, "pre_clipping", r.keys[3])}
    /\ consumed' = consumed \cup {Consume(state.rng_key, ops, "split")}
    /\ ops' = ops + 1
    /\ pc' = "split"
    /\ UNCHANGED <<svi, state, result, succeeded, init_mutable_state>>
    /\ UNCHANGED fnvars

\* the gradients of a batch after the optional perturbation all have a
\* rational norm
Representable(px_grads, batch_size) ==
    LET g == _pre_clipping(svi, upd.keys[3], px_grads, batch_size)
    IN  \A i \in 1..Len(g) : IsRSquare(NormSq(g[i]))

\* _compute_per_example_gradients: the collaborator's loss and gradient of
\* every example of the batch
update_compute_per_example_gradients ==
    /\ pc = "split"
    /\ \E batch \in Batches :
          LET px_grads == [i \in 1..Len(batch) |-> batch[i].grads]
          IN  /\ Representable(px_grads, Len(batch))
              /\ upd' = [upd EXCEPT !.px_loss = [i \in 1..Len(batch) |-> batch[i].loss],
                                    !.px_grads = px_grads,
                                    !.batch_size = Len(batch)]
    /\ consumed' = consumed \cup {Consume(upd.keys[1], CurOp, "collaborator")}
    /\ pc' = "px_grads"
    /\ UNCHANGED <<svi, state, result, ops, derived, succeeded, init_mutable_state>>
    /\ UNCHANGED fnvars

\* the loss or its gradient raises
update_compute_per_example_gradients_raises ==
    /\ pc = "split"
    /\ Raise("LossError")
    /\ consumed' = consumed \cup {Consume(upd.keys[1], CurOp, "collaborator")}
    /\ UNCHANGED <<svi, ops, derived, succeeded, init_mutable_state>>
    /\ UNCHANGED fnvars

PreClippingConsumed ==
    IF svi.pre_clipping_noise_scale # <<>>
    THEN {Consume(upd.keys[3], CurOp, "split")}
    ELSE {}

\* _clip_gradients returns
update_clip_gradients ==
    /\ pc = "px_grads"
    /\ LET res == _clip_gradients(svi, upd.svi_state, upd.keys[3], upd.px_grads,
                                  upd.batch_size)
       IN  /\ res.raised = "none"
           /\ upd' = [upd EXCEPT !.clipped = res.value]
    /\ consumed' = consumed \cup PreClippingConsumed
    /\ pc' = "clipped"
    /\ UNCHANGED <<svi, state, result, ops, derived, succeeded, init_mutable_state>>
    /\ UNCHANGED fnvars

\* _clip_gradients raises (clip_gradient rejects the threshold)
update_clip_gradients_raises ==
    /\ pc = "px_grads"
    /\ LET res == _clip_gradients(svi, upd.svi_state, upd.keys[3], upd.px_grads,
                                  upd.batch_size)
       IN  /\ res.raised # "none"
           /\ Raise(res.raised)
    /\ consumed' = consumed \cup PreClippingConsumed
    /\ UNCHANGED <<svi, ops, derived, succeeded, init_mutable_state>>
    /\ UNCHANGED fnvars

update_combine_gradients ==
    /\ pc = "clipped"
    /\ LET res == _combine_gradients(upd.clipped, upd.px_loss)
       IN  upd' = [upd EXCEPT !.loss = res.loss_val, !.gradient = res.grads_list]
    /\ pc' = "combined"
    /\ UNCHANGED <<svi, state, result, ops, consumed, derived, succeeded,
                   init_mutable_state>>
    /\ UNCHANGED fnvars

PerturbationConsumed ==
    {Consume(upd.keys[2], CurOp, "split")} \cup
    {Consume(split(upd.keys[2], Len(upd.gradient))[p], CurOp, "sample") :
        p \in 1..Len(upd.gradient)}

update_perturb_and_reassemble_gradients ==
    /\ pc = "combined"
    /\ LET res == _perturb_and_reassemble_gradients(svi, upd.svi_state, upd.keys[2],
                                                    upd.gradient, upd.batch_size)
       IN  upd' = [upd EXCEPT !.perturbed_grads_list = res.perturbed_grads_list,
                              !.batch_gradient = res.perturbed_grads]
    /\ consumed' = consumed \cup PerturbationConsumed
    /\ pc' = "perturbed"
    /\ UNCHANGED <<svi, state, result, ops, derived, succeeded, init_mutable_state>>
    /\ UNCHANGED fnvars

\* the random number generator suite raises
update_perturb_and_reassemble_gradients_raises ==
    /\ pc = "combined"
    /\ Raise("RngError")
    /\ consumed' = consumed \cup {Consume(upd.keys[2], CurOp, "split")}
    /\ UNCHANGED <<svi, ops, derived, succeeded, init_mutable_state>>
    /\ UNCHANGED fnvars

update_apply_gradient ==
    /\ pc = "perturbed"
    /\ upd' = [upd EXCEPT !.svi_state = _apply_gradient(upd.svi_state, upd.batch_gradient)]
    /\ pc' = "applied"
    /\ UNCHANGED <<svi, state, result, ops, consumed, derived, succeeded,
                   init_mutable_state>>
    /\ UNCHANGED fnvars

\* the optimizer's update raises
update_apply_gradient_raises ==
    /\ pc = "perturbed"
    /\ Raise("OptimizerError")
    /\ UNCHANGED <<svi, ops, consumed, derived, succeeded, init_mutable_state>>
    /\ UNCHANGED fnvars

\* update, line 462: update returns upd.svi_state and upd.loss, and the
\* caller replaces its state by the returned one
update_return ==
    /\ pc = "applied"
    /\ state' = upd.svi_state
    /\ result' = [op |-> "update", raised |-> "none"]
    /\ upd' = NoUpd
    /\ pc' = "idle"
    /\ succeeded' = succeeded \cup {CurOp}
    /\ UNCHANGED <<svi, ops, consumed, derived, init_mutable_state>>
    /\ UNCHANGED fnvars

\* DPSVI.evaluate: returns the loss the collaborator computes with a key
\* split off the state key; the caller's state is not replaced
evaluate ==
    /\ pc = "idle"
    /\ ops < MaxOps
    /\ LET rng_key == split(state.rng_key, 1)[1]
       IN  consumed' = consumed \cup {Consume(state.rng_key, ops, "split"),
                                      Consume(rng_key, ops, "collaborator")}
    /\ result' = [op |-> "evaluate", raised |-> "none"]
    /\ ops' = ops + 1
    /\ UNCHANGED <<svi, pc, state, upd, derived, succeeded, init_mutable_state>>
    /\ UNCHANGED fnvars

Next ==
    \/ init
    \/ update_split_rng_key
    \/ update_compute_per_example_gradients
    \/ update_compute_per_example_gradients_raises
    \/ update_clip_gradients
    \/ update_clip_gradients_raises
    \/ update_combine_gradients
    \/ update_perturb_and_reassemble_gradients
    \/ update_perturb_and_reassemble_gradients_raises
    \/ update_apply_gradient
    \/ update_apply_gradient_raises
    \/ update_return
    \/ evaluate

Spec == Init /\ [][Next]_vars

(***************************************************************************)
(* Claims about the norm and clipping functions, checked under ClipSpec.   *)
(***************************************************************************)
\* C1: for every gradient g and threshold C > 0, with rescale_factor = 1,
\* the full 2-norm of clip_gradient(g, C) over all parts is at most C.
C1_ClippedNormAtMostC ==
    (fn_pc = "returned" /\ fn_args.r = R(1))
        => RLe(full_norm(fn_result), fn_args.c)

\* a gradient of several parts whose full norm exceeds C has been clipped
C1_Witness ==
    /\ fn_pc = "returned"
    /\ fn_args.r = R(1)
    /\ Len(fn_args.g) > 1
    /\ RLt(RMul(fn_args.c, fn_args.c), NormSq(fn_args.g))

\* C2: for every gradient g and threshold C > 0 with full_norm(g) <= C,
\* clip_gradient(g, C) with rescale_factor = 1 returns g unchanged.
C2_WithinBoundUnchanged ==
    (/\ fn_pc = "returned"
     /\ fn_args.r = R(1)
     /\ RLe(full_norm(fn_args.g), fn_args.c))
        => fn_result = fn_args.g

\* a non-zero gradient whose full norm is exactly C has been clipped
C2_Witness ==
    /\ fn_pc = "returned"
    /\ fn_args.r = R(1)
    /\ full_norm(fn_args.g) = fn_args.c
    /\ Len(fn_args.g) > 1

\* C3: clip_gradient raises for every threshold C <= 0, whatever the
\* gradient and the rescale_factor, and returns nothing then.
C3_NonPositiveThresholdRaises ==
    (fn_pc # "ready" /\ RLe(fn_args.c, R(0)))
        => (fn_pc = "raised" /\ fn_result = <<>>)

\* the call with C = 0, a non-empty gradient and a factor other than 1 raised
C3_Witness ==
    /\ fn_pc = "raised"
    /\ fn_args.c = R(0)
    /\ fn_args.r # R(1)
    /\ fn_args.g # <<>>

\* C16: for every gradient g, threshold C > 0 and rescale_factor r, positive,
\* zero or negative, clip_gradient(g, C, r) returns g with every element
\* multiplied by r / max(1, full_norm(g) * r / C), the full norm of the
\* result is at most C, and when full_norm(r * g) <= C the result is r * g.
C16_ClipAnyRescaleFactor ==
    fn_pc = "returned" =>
        LET g == fn_args.g
            c == fn_args.c
            r == fn_args.r
            f == RDiv(r, RMax(R(1), RDiv(RMul(full_norm(g), r), c)))
        IN  /\ fn_result = ScaleParts(f, g)
            /\ RLe(full_norm(fn_result), c)
            /\ RLe(full_norm(ScaleParts(r, g)), c) => fn_result = ScaleParts(r, g)

(***************************************************************************)
(* Claims about normalize_gradient, checked under NormSpec.                *)
(***************************************************************************)
\* C14: normalize_gradient does not fail on the empty list of parts: the
\* full norm of the empty list is 0 and the call returns a result.
C14_NormalizeEmptyReturns ==
    (fn_pc # "ready" /\ fn_args.g = <<>>)
        => (full_norm(fn_args.g) = R(0) /\ fn_pc = "returned")

(***************************************************************************)
(* Claims about the aggregation stage, checked under CombineSpec.          *)
(***************************************************************************)
\* C15: for a batch of n >= 1 per-example gradients that each have full norm
\* at most C, the batch gradient the aggregation stage produces (the mean
\* over the examples, site by site) has full norm at most C.
C15_MeanNormAtMostC ==
    fn_pc = "returned" =>
        /\ \A i \in 1..Len(fn_args.px_grads_list) :
              RLe(NormSq(fn_args.px_grads_list[i]), R(MaxNorm * MaxNorm))
        /\ RLe(NormSq(fn_result), R(MaxNorm * MaxNorm))

\* the mean of two gradients of norm exactly C that point in different
\* directions, neither the opposite of the other
C15_Witness ==
    /\ fn_pc = "returned"
    /\ Len(fn_args.px_grads_list) = 2
    /\ \A i \in 1..2 : NormSq(fn_args.px_grads_list[i]) = R(MaxNorm * MaxNorm)
    /\ fn_args.px_grads_list[1] # fn_args.px_grads_list[2]
    /\ NormSq(fn_result) # R(0)

(***************************************************************************)
(* Claims about init, update and evaluate, checked under Spec.             *)
(***************************************************************************)
\* C4: over any sequence of init, update and evaluate no key is consumed by
\* more than one operation: a key one operation split, sampled or handed to
\* a collaborator is not consumed again by another operation.
C4_NoKeyConsumedByTwoOperations ==
    \A a \in consumed, b \in consumed : a.key = b.key => a.op = b.op

StageRoles == {"gradient", "perturbation", "pre_clipping"}

KeysOf(op, roles) == {d.key : d \in {e \in derived : e.op = op /\ e.role \in roles}}

\* C5: in any sequence of successful updates every step derives exactly 3
\* stage keys and retains a 4th, distinct key as the new state key; the
\* retained key of a step differs from every stage key of every step, and
\* no stage key belongs to two different steps.
C5_StageKeysFresh ==
    /\ \A o \in succeeded :
          /\ Cardinality(KeysOf(o, StageRoles)) = 3
          /\ Cardinality(KeysOf(o, {"retained"})) = 1
    /\ \A o1 \in succeeded, o2 \in succeeded :
          /\ KeysOf(o1, {"retained"}) \cap KeysOf(o2, StageRoles) = {}
          /\ o1 # o2 => KeysOf(o1, StageRoles) \cap KeysOf(o2, StageRoles) = {}
    /\ (pc = "idle" /\ result.op = "update" /\ result.raised = "none")
          => KeysOf(CurOp, {"retained"}) = {state.rng_key}

\* two updates have returned
C5_Witness == Cardinality(succeeded) >= 2

UpdateStages == {"split", "px_grads", "clipped", "combined", "perturbed", "applied"}

\* C6: a step is all-or-nothing: while update runs the caller's state is
\* the one it passed, and when update raises the caller still holds that
\* state, the optimizer's update was not applied and the step does not
\* count as returned.
C6_FailedStepLeavesState ==
    [][/\ pc' \in UpdateStages => state' = upd'.given
       /\ (pc \in UpdateStages /\ pc' = "idle" /\ result'.raised # "none")
             => /\ state' = upd.given
                /\ upd.svi_state.optim_state = upd.given.optim_state
                /\ succeeded' = succeeded]_vars

\* the optimizer raised in the update that followed a successful one
C6_Witness ==
    /\ pc = "idle"
    /\ result = [op |-> "update", raised |-> "OptimizerError"]
    /\ state.optim_state.i = 1

\* C7: the post-clip noise is added to the aggregated batch gradient, once
\* per site, with scale dp_scale * C / batch_size, batch_size being the
\* number of examples of the batch, and before the multiplication by
\* observation_scale; with dp_scale = 0 the batch gradient is unchanged.
C7_PostClipNoise ==
    pc \in {"perturbed", "applied"} =>
        LET n == Len(upd.px_grads)
            scale == RDiv(RMul(svi.dp_scale, svi.clipping_threshold), R(n))
            site_rngs == split(upd.keys[2], Len(upd.gradient))
            s == upd.given.observation_scale
        IN  /\ Len(upd.gradient) = Len(upd.px_grads[1])
            /\ Len(upd.perturbed_grads_list) = Len(upd.gradient)
            /\ \A p \in 1..Len(upd.gradient) :
                  /\ Len(upd.perturbed_grads_list[p]) = Len(upd.gradient[p])
                  /\ \A j \in 1..Len(upd.gradient[p]) :
                        /\ upd.perturbed_grads_list[p][j] =
                              RAdd(upd.gradient[p][j],
                                   RMul(normal(site_rngs[p], Len(upd.gradient[p]))[j],
                                        scale))
                        /\ upd.batch_gradient[p][j] =
                              RMul(s, upd.perturbed_grads_list[p][j])
            /\ svi.dp_scale = R(0) => upd.perturbed_grads_list = upd.gradient

\* noise other than 0 was added to the mean of two examples, with
\* observation_scale 2
C7_Witness ==
    /\ pc = "applied"
    /\ svi.dp_scale = R(1)
    /\ upd.batch_size = 2
    /\ upd.given.observation_scale = R(2)
    /\ upd.perturbed_grads_list # upd.gradient

\* clip of the claim: the vector times 1 / max(1, norm / C)
RefClip(v, c) == ScaleParts(RDiv(R(1), RMax(R(1), RDiv(full_norm(v), c))), v)

\* s * mean_i(clip(g_i / s, C)), site by site
RefBatchGradient(px_grads, c, s) ==
    LET clipped == [i \in 1..Len(px_grads) |->
                       RefClip(ScaleParts(RDiv(R(1), s), px_grads[i]), c)]
    IN  [p \in 1..Len(px_grads[1]) |->
            [j \in 1..Len(px_grads[1][p]) |->
                RMul(s, Mean([i \in 1..Len(px_grads) |-> clipped[i][p][j]]))]]

\* C8: with dp_scale = 0 and no pre-clipping noise, the gradient handed to
\* the optimizer is s * mean_i(clip(g_i / s, C)) for the per-example
\* gradients g_1..g_n, the threshold C and the observation_scale s.
C8_HandedGradient ==
    (pc = "applied" /\ svi.dp_scale = R(0) /\ svi.pre_clipping_noise_scale = <<>>)
        => upd.batch_gradient =
               RefBatchGradient(upd.px_grads, svi.clipping_threshold,
                                upd.given.observation_scale)

\* two examples, one of them shrunk by the clipping, with observation_scale 2
C8_Witness ==
    /\ pc = "applied"
    /\ svi.dp_scale = R(0)
    /\ svi.pre_clipping_noise_scale = <<>>
    /\ upd.given.observation_scale = R(2)
    /\ upd.batch_size = 2
    /\ \E i \in 1..2 : upd.clipped[i] # ScaleParts(Rat(1, 2), upd.px_grads[i])
    /\ \E p \in 1..Len(upd.batch_gradient) : upd.batch_gradient[p] # <<R(0)>>

\* C9: update with pre_clipping_noise_scale = 0 returns what update with
\* pre_clipping_noise_scale = None returns for the same state and batch:
\* the same optimizer state, rng key and loss (and hands the optimizer the
\* same gradient).
C9_ZeroPreClippingNoise ==
    (pc = "applied" /\ svi.pre_clipping_noise_scale \in {<<>>, R(0)}) =>
        LET other == IF svi.pre_clipping_noise_scale = <<>> THEN R(0) ELSE <<>>
            res == update([svi EXCEPT !.pre_clipping_noise_scale = other],
                          upd.given, upd.px_loss, upd.px_grads)
        IN  /\ res.raised = "none"
            /\ res.svi_state = upd.svi_state
            /\ res.loss = upd.loss
            /\ res.gradient = upd.batch_gradient

\* an update with pre_clipping_noise_scale = 0 on two examples, with post-clip
\* noise, has applied a gradient other than 0
C9_Witness ==
    /\ pc = "applied"
    /\ svi.pre_clipping_noise_scale = R(0)
    /\ svi.dp_scale = R(1)
    /\ upd.batch_size = 2
    /\ \E p \in 1..Len(upd.batch_gradient) : upd.batch_gradient[p] # <<R(0)>>

\* C10: when the underlying initialization yields a non-empty mutable state,
\* init raises the unsupported-state error and returns no state, so that
\* no update runs on it.
C10_MutableStateRejected ==
    init_mutable_state = "non_empty"
        => /\ pc = "init_failed"
           /\ result = [op |-> "init", raised |-> "RuntimeError"]
           /\ state = NoState
           /\ upd = NoUpd
           /\ succeeded = {}

\* init has been called on a setup with a non-empty mutable state
C10_Witness == init_mutable_state = "non_empty" /\ ops = 1

\* C11: constructing the pipeline with a clipping threshold C <= 0 raises at
\* once, so that no init and no update is started on a pipeline configured
\* with C <= 0.
C11_ConstructorRejectsNonPositiveThreshold ==
    RLe(svi.clipping_threshold, R(0)) => (pc = "construct_failed" /\ ops = 0)

\* the stages of the running update that have returned
Done(stages) == pc \in stages

\* the substates update derives from the key of the state it was given:
\* [1] is retained as the key of the new state
Substates == split(upd.given.rng_key, 4)

\* the post-clip scale of the running update
PostClipScale == RDiv(RMul(svi.dp_scale, svi.clipping_threshold), R(upd.batch_size))

\* the clipped gradients of the running update are those of the examples
\* perturbed with key (a perturbed example whose norm is not rational has
\* no rational clipped value)
ClippedWith(key) ==
    LET pre == _pre_clipping(svi, key, upd.px_grads, upd.batch_size)
    IN  /\ Len(upd.clipped) = Len(pre)
        /\ \A i \in 1..Len(pre) :
              /\ IsRSquare(NormSq(pre[i]))
              /\ upd.clipped[i] =
                    clip_gradient(pre[i], svi.clipping_threshold,
                                  RDiv(R(1), upd.given.observation_scale)).value

\* the running update gave gradient_key to the gradient computation,
\* pre_clip_key to the pre-clipping perturbation and post_clip_key to the
\* perturbation of the batch gradient
StageKeysAre(gradient_key, pre_clip_key, post_clip_key) ==
    /\ Done({"px_grads", "clipped", "combined", "perturbed", "applied"})
          => Consume(gradient_key, CurOp, "collaborator") \in consumed
    /\ Done({"clipped", "combined", "perturbed", "applied"})
          => ClippedWith(pre_clip_key)
    /\ Done({"perturbed", "applied"})
          => upd.perturbed_grads_list =
                perturbation_function(post_clip_key, upd.gradient, PostClipScale)

\* C17 as claimed: the first substate after the retained one feeds the
\* per-example gradient computation, the second the pre-clipping
\* perturbation and the third the post-clip perturbation of the batch
\* gradient.
C17_StageKeyOrderClaimed == StageKeysAre(Substates[2], Substates[3], Substates[4])

\* C17, amended: the first substate after the retained one feeds the
\* per-example gradient computation, the second the post-clip perturbation
\* of the batch gradient and the third the pre-clipping perturbation.
C17_StageKeyOrder == StageKeysAre(Substates[2], Substates[4], Substates[3])

\* an update with both perturbations has applied a gradient that the other
\* assignment of the two perturbation keys would not have given
C17_Witness ==
    /\ pc = "applied"
    /\ svi.pre_clipping_noise_scale = R(1)
    /\ svi.dp_scale = R(1)
    /\ ~ClippedWith(Substates[3])
    /\ upd.perturbed_grads_list #
          perturbation_function(Substates[4], upd.gradient, PostClipScale)

\* the order of the stages of one update
StageSteps ==
    {<<"idle", "split">>, <<"split", "px_grads">>, <<"px_grads", "clipped">>,
     <<"clipped", "combined">>, <<"combined", "perturbed">>,
     <<"perturbed", "applied">>, <<"applied", "idle">>}

\* the gradient about to be handed to the optimizer: every example was
\* perturbed (if configured), rescaled and clipped on its own, the clipped
\* examples were averaged site by site, the post-clip noise was added to the
\* average and the sum multiplied by the observation scale
ClippedThenAveragedThenNoised ==
    /\ ClippedWith(upd.keys[3])
    /\ \A i \in 1..Len(upd.clipped) :
          RLe(NormSq(upd.clipped[i]),
              RMul(svi.clipping_threshold, svi.clipping_threshold))
    /\ Len(upd.clipped) = Len(upd.px_grads)
    /\ \A p \in 1..Len(upd.gradient) : \A j \in 1..Len(upd.gradient[p]) :
          upd.gradient[p][j] = Mean([i \in 1..Len(upd.clipped) |-> upd.clipped[i][p][j]])
    /\ upd.batch_gradient =
          ScaleParts(upd.given.observation_scale,
                     perturbation_function(upd.keys[2], upd.gradient, PostClipScale))

\* C18: within an update the stages run in the order split, per-example
\* gradients, (optional pre-clip noise and) clipping of every example, mean
\* aggregation, post-clip noise (and loss scale), optimizer update, each once
\* and none revisited; the optimizer's update runs exactly once per
\* successful step, and only on a gradient whose every example was clipped
\* before the aggregation and that got its post-clip noise after it.
C18_StagesInOrder ==
    [][/\ pc' # pc =>
             (\/ <<pc, pc'>> \in StageSteps
              \/ (pc \in UpdateStages /\ pc' = "idle" /\ result'.raised # "none")
              \/ (pc = "constructed" /\ pc' \in {"idle", "init_failed"}))
       /\ (pc \in UpdateStages /\ pc' \in UpdateStages) =>
             ((upd'.svi_state.optim_state # upd.svi_state.optim_state)
                 <=> (pc = "perturbed" /\ pc' = "applied"))
       /\ (pc = "perturbed" /\ pc' = "applied") =>
             /\ ClippedThenAveragedThenNoised
             /\ upd'.svi_state.optim_state =
                   optim_update(upd.batch_gradient, upd.given.optim_state)
       /\ (pc = "applied" /\ pc' = "idle") =>
             /\ result'.raised = "none"
             /\ state' = upd.svi_state
             /\ state'.optim_state.i = state.optim_state.i + 1
       /\ ~(pc = "applied" /\ pc' = "idle") => state'.optim_state = state.optim_state
      ]_vars

\* the second update of a pipeline with both perturbations has run its
\* optimizer update
C18_Witness ==
    /\ pc = "applied"
    /\ upd.given.optim_state.i = 1
    /\ upd.svi_state.optim_state.i = 2
    /\ svi.pre_clipping_noise_scale = R(1)
    /\ svi.dp_scale = R(1)
    /\ upd.batch_size = 2

\* C19: update does not change the state it is given and replaces only the
\* optimizer state and the rng key: the observation_scale of the state it
\* builds and returns is that of the given state, so after any sequence of
\* updates it is the value computed at init; evaluate leaves the optimizer
\* state, rng key and observation_scale of the given state unchanged.
C19_OnlyOptimizerAndKeyReplaced ==
    [][/\ pc # "constructed" => state'.observation_scale = state.observation_scale
       /\ (pc = "idle" /\ pc' = "split") => (upd'.given = state /\ state' = state)
       /\ pc' \in UpdateStages =>
             /\ upd'.svi_state.observation_scale = upd'.given.observation_scale
             /\ pc \in UpdateStages => upd'.given = upd.given
       /\ (pc = "applied" /\ pc' = "idle") =>
             /\ state'.observation_scale = upd.given.observation_scale
             /\ state'.rng_key # upd.given.rng_key
             /\ state'.optim_state # upd.given.optim_state
       /\ (pc = "idle" /\ pc' = "idle" /\ ops' # ops) =>
             (result'.op = "evaluate" /\ state' = state)
      ]_vars

\* after an update and an evaluate the state has the observation_scale 2
\* computed at init
C19_Witness ==
    /\ pc = "idle"
    /\ result.op = "evaluate"
    /\ state.optim_state.i = 1
    /\ state.observation_scale = R(2)

\* the operations that split key
SplittersOf(key) == {c.op : c \in {x \in consumed : x.use = "split" /\ x.key = key}}

\* the updates among the operations started so far
UpdateOps == {d.op : d \in derived}

\* the keys the evaluate calls on a state with the key state_key handed to
\* the loss
EvaluateKeys(state_key) ==
    {c.key : c \in {x \in consumed : /\ x.use = "collaborator"
                                     /\ x.op \in SplittersOf(state_key) \ UpdateOps}}

\* the keys the updates of a state with the key state_key derived for the
\* computation of the loss and its gradients
GradientKeys(state_key) ==
    {d.key : d \in {x \in derived : x.role = "gradient" /\ x.op \in SplittersOf(state_key)}}

\* C21: given the same state, evaluate computes the loss with the key that
\* update uses for its computation of the loss and the gradients: the key
\* evaluate derives from the key of the state is the gradient key update
\* derives from it.
C21_EvaluateUsesGradientKey ==
    \A c \in consumed :
        \A e \in EvaluateKeys(c.key), g \in GradientKeys(c.key) : e = g

RECURSIVE RetainedKey(_, _)
\* the first substate of a split in 4, taken k times from initial_key on
RetainedKey(initial_key, k) ==
    IF k = 0 THEN initial_key
    ELSE split(RetainedKey(initial_key, k - 1), 4)[1]

\* C22: the rng key of the state after k successful updates depends only on
\* the initial key and k, whatever the batches, the gradients, the optimizer
\* state and the configuration of the pre-clipping noise: it is the first
\* substate of a split in 4, taken k times; an update that raises leaves it
\* as it was.
C22_RetainedKeyDependsOnStepCount ==
    /\ pc = "idle" => state.rng_key = RetainedKey(InitKey, Cardinality(succeeded))
    /\ pc \in UpdateStages =>
          /\ state.rng_key = RetainedKey(InitKey, Cardinality(succeeded))
          /\ upd.svi_state.rng_key = RetainedKey(InitKey, Cardinality(succeeded) + 1)

\* two updates of a pipeline with pre-clipping noise have returned
C22_Witness ==
    /\ pc = "idle"
    /\ Cardinality(succeeded) = 2
    /\ svi.pre_clipping_noise_scale = R(1)
    /\ state.rng_key = <<<<4, 0>>, <<4, 0>>>>

(***************************************************************************)
(* Claims about the clipping stage, checked under PxClipSpec.              *)
(***************************************************************************)
\* C20: within one update the clipped (and, if configured, perturbed)
\* gradient of example i depends only on the raw gradient of example i, its
\* own key, the observation scale and C: replacing the raw gradient of
\* another example of the batch leaves the clipped gradient of example i
\* unchanged, and its norm, taken over all sites of example i, is at most C.
C20_NoCrossExampleDependency ==
    fn_pc = "returned" =>
        \A i \in 1..Len(fn_args.batch) :
            /\ i # fn_args.other => fn_result.clipped_changed[i] = fn_result.clipped[i]
            /\ RLe(full_norm(fn_result.clipped[i]), fn_args.self.clipping_threshold)
            /\ LET keys == split(convert_to_jax_rng_key(FirstPreClippingKey),
                                 Len(fn_args.batch))
                   own == IF fn_args.self.pre_clipping_noise_scale = <<>>
                          THEN fn_args.batch[i]
                          ELSE perturbation_function(
                                   keys[i], fn_args.batch[i],
                                   fn_args.self.pre_clipping_noise_scale)
               IN  fn_result.clipped[i] =
                       RefClip(ScaleParts(RDiv(R(1), fn_args.observation_scale), own),
                               fn_args.self.clipping_threshold)

\* with pre-clipping noise, an example that clipping shrinks was replaced by
\* one it leaves alone, next to an example that clipping shrinks
C20_Witness ==
    /\ fn_pc = "returned"
    /\ fn_args.self.pre_clipping_noise_scale = R(1)
    /\ Len(fn_args.batch) = 2
    /\ \E i \in 1..2 :
          /\ i # fn_args.other
          /\ fn_result.clipped[i] # fn_args.batch[i]
          /\ full_norm(fn_result.clipped[i]) = fn_args.self.clipping_threshold
    /\ full_norm(fn_result.clipped[fn_args.other]) = fn_args.self.clipping_threshold
    /\ RLt(full_norm(fn_result.clipped_changed[fn_args.other]),
           fn_args.self.clipping_threshold)

(***************************************************************************)
(* Claims about what init does with the probed scale, checked under        *)
(* ProbeSpec.                                                              *)
(***************************************************************************)
\* the scale of observed site k, a site without scale counting as scale 1
SiteScale(site_scales, k) == IF site_scales[k] = <<>> THEN R(1) ELSE site_scales[k]

\* C12: when init probes the observation scale (SVI.init reported no mutable
\* state), it raises ValueError whenever two observed sites carry different
\* scales, a site without scale counting as scale 1; otherwise it returns a
\* state whose observation_scale is 1 when there is no observed site and the
\* common scale of the sites when there are some.
C12_ObservationScaleProbe ==
    (fn_pc # "ready" /\ fn_args.mutable_state = "None") =>
        LET sites == fn_args.site_scales
            n == Len(sites)
        IN  IF \E i \in 1..n, j \in 1..n : SiteScale(sites, i) # SiteScale(sites, j)
            THEN fn_pc = "raised" /\ fn_result = [raised |-> "ValueError", state |-> NoState]
            ELSE /\ fn_pc = "returned"
                 /\ fn_result.raised = "none"
                 /\ n = 0 => fn_result.state.observation_scale = R(1)
                 /\ \A i \in 1..n :
                       fn_result.state.observation_scale = SiteScale(sites, i)

\* init raised for a model with a site of scale 2 and a site without scale
C12_Witness ==
    /\ fn_pc = "raised"
    /\ fn_args.mutable_state = "None"
    /\ \E i \in 1..Len(fn_args.site_scales), j \in 1..Len(fn_args.site_scales) :
          fn_args.site_scales[i] = <<>> /\ fn_args.site_scales[j] = R(2)

(***************************************************************************)
(* Claims about get_epsilon and get_delta, checked under AccountSpec.      *)
(***************************************************************************)
\* C13: get_epsilon and get_delta hand the accountant num_iter as iteration
\* count when only num_iter is supplied and num_epochs / sampling_ratio when
\* num_epochs is supplied; the call raises ValueError if and only if neither
\* is supplied, and then the accountant is not invoked.
C13_IterationCount ==
    fn_pc # "ready" =>
        LET neither == fn_args.num_epochs = <<>> /\ fn_args.num_iter = <<>>
        IN  /\ neither <=> fn_pc = "raised"
            /\ fn_pc = "raised" => (fn_result.raised = "ValueError" /\ fn_result.calls = <<>>)
            /\ fn_pc = "returned" =>
                  /\ Len(fn_result.calls) = 1
                  /\ fn_result.calls[1].fn \in {"get_epsilon_R", "get_delta_R"}
                  /\ fn_args.num_epochs # <<>> =>
                        fn_result.calls[1].ncomp = RDiv(fn_args.num_epochs, fn_args.q)
                  /\ fn_args.num_epochs = <<>> =>
                        fn_result.calls[1].ncomp = fn_args.num_iter

\* get_delta was called with both num_epochs and num_iter, and the two give
\* different iteration counts
C13_Witness ==
    /\ fn_pc = "returned"
    /\ fn_result.calls[1].fn = "get_delta_R"
    /\ fn_args.num_epochs # <<>>
    /\ fn_args.num_iter # <<>>
    /\ fn_args.num_iter # RDiv(fn_args.num_epochs, fn_args.q)

====
